---- MODULE Spec2Model ----
(***************************************************************************)
(* kittycat: the search worker (iterative deepening, negamax with PVS,     *)
(* quiescence, draw detection, cooperative cancellation), the engine       *)
(* coordinator and the reader, as three threads exchanging messages over   *)
(* unbounded channels and sharing the board and the move history under     *)
(* reader-writer locks.                                                    *)
(*                                                                         *)
(* The board library (chess crate) is external: a position is an index     *)
(* into the table Game, which gives what the library would answer for it   *)
(* (side to move, checkers, material, legal moves in generator order,      *)
(* static evaluation).  Time is in milliseconds.                           *)
(***************************************************************************)
EXTENDS Integers, Sequences, FiniteSets, TLC

\* ------------------------------------------------------------ constants

MAX_PLY == 64

INFINITY == 10000

\* 0x2000, the polling window of negamax and the bit quiescence tests
POLL == 8192

\* ------------------------------------------------------------ bounds

\* commands the controller types on standard input
MaxCmds == 2

\* a search's elapsed time advances in steps of one millisecond up to MaxTime
MaxTime == 1

\* commands that reach the worker's control queue (worker-only specification)
MaxControl == 2

\* iterations of a search the specification of the whole engine follows (the
\* worker-only specification follows all MAX_PLY of them)
MaxIter == 3

\* nodes the polling specification follows a search for: two polling windows
\* and the start of the third
MaxNodes == 17000

\* commands that reach the control queue during a search of the polling
\* specification
MaxPoll == 3

\* positions along the deep line of play
LineLen == 66

\* positions along the line of checks, more than the search can follow
CheckLen == 70

\* the longest history the repetition test is called on
MaxHistory == 5

\* pieces placed on a board next to the two kings when the evaluator is
\* called on its own
MaxExtra == 3

\* ------------------------------------------------------------ the evaluator

\* A board as the evaluator reads it: the pieces with their colours and
\* squares (a1 = 0, b1 = 1, ..., h8 = 63) and the side to move.
Placed(piece, colour, square) == [piece |-> piece, colour |-> colour, square |-> square]

BoardOf(pieces, stm) == [pieces |-> pieces, stm |-> stm]

\* Eval = i16: a sum kept in 16 bits
i16(x) == ((x + 32768) % 65536) - 32768

PAWN_TABLE ==
    <<0, 0, 0, 0, 0, 0, 0, 0,
      50, 50, 50, 50, 50, 50, 50, 50,
      10, 10, 20, 30, 30, 20, 10, 10,
      5, 5, 10, 25, 25, 10, 5, 5,
      0, 0, 0, 20, 20, 0, 0, 0,
      5, -5, -10, 0, 0, -10, -5, 5,
      5, 10, 10, -20, -20, 10, 10, 5,
      0, 0, 0, 0, 0, 0, 0, 0>>

KNIGHT_TABLE ==
    <<-50, -40, -30, -30, -30, -30, -40, -50,
      -40, -20, 0, 0, 0, 0, -20, -40,
      -30, 0, 10, 15, 15, 10, 0, -30,
      -30, 5, 15, 20, 20, 15, 5, -30,
      -30, 0, 15, 20, 20, 15, 0, -30,
      -30, 5, 10, 15, 15, 10, 5, -30,
      -40, -20, 0, 5, 5, 0, -20, -40,
      -50, -40, -30, -30, -30, -30, -40, -50>>

BISHOP_TABLE ==
    <<-20, -10, -10, -10, -10, -10, -10, -20,
      -10, 0, 0, 0, 0, 0, 0, -10,
      -10, 0, 5, 10, 10, 5, 0, -10,
      -10, 5, 5, 10, 10, 5, 5, -10,
      -10, 0, 10, 10, 10, 10, 0, -10,
      -10, 10, 10, 10, 10, 10, 10, -10,
      -10, 5, 0, 0, 0, 0, 5, -10,
      -20, -10, -10, -10, -10, -10, -10, -20>>

ROOK_TABLE ==
    <<0, 0, 0, 0, 0, 0, 0, 0,
      5, 10, 10, 10, 10, 10, 10, 5,
      -5, 0, 0, 0, 0, 0, 0, -5,
      -5, 0, 0, 0, 0, 0, 0, -5,
      -5, 0, 0, 0, 0, 0, 0, -5,
      -5, 0, 0, 0, 0, 0, 0, -5,
      -5, 0, 0, 0, 0, 0, 0, -5,
      0, 0, 0, 5, 5, 0, 0, 0>>

QUEEN_TABLE ==
    <<-20, -10, -10, -5, -5, -10, -10, -20,
      -10, 0, 0, 0, 0, 0, 0, -10,
      -10, 0, 5, 5, 5, 5, 0, -10,
      -5, 0, 5, 5, 5, 5, 0, -5,
      0, 0, 5, 5, 5, 5, 0, -5,
      -10, 5, 5, 5, 5, 5, 0, -10,
      -10, 0, 5, 0, 0, 0, 0, -10,
      -20, -10, -10, -5, -5, -10, -10, -20>>

KING_TABLE ==
    <<-30, -40, -40, -50, -50, -40, -40, -30,
      -30, -40, -40, -50, -50, -40, -40, -30,
      -30, -40, -40, -50, -50, -40, -40, -30,
      -30, -40, -40, -50, -50, -40, -40, -30,
      -20, -30, -30, -40, -40, -30, -30, -20,
      -10, -20, -20, -20, -20, -20, -20, -10,
      20, 20, 0, 0, 0, 0, 20, 20,
      20, 30, 10, 0, 0, 10, 30, 20>>

KING_TABLE_ENDGAME ==
    <<-50, -40, -30, -20, -20, -30, -40, -50,
      -30, -20, -10, 0, 0, -10, -20, -30,
      -30, -10, 20, 30, 30, 20, -10, -30,
      -30, -10, 30, 40, 40, 30, -10, -30,
      -30, -10, 30, 40, 40, 30, -10, -30,
      -30, -10, 20, 30, 30, 20, -10, -30,
      -30, -30, 0, 0, 0, 0, -30, -30,
      -50, -30, -30, -30, -30, -30, -30, -50>>

\* the material value of a piece
piece_value(piece) ==
    CASE piece = "Pawn" -> 100
      [] piece = "Knight" -> 320
      [] piece = "Bishop" -> 330
      [] piece = "Rook" -> 500
      [] piece = "Queen" -> 900
      [] piece = "King" -> 20000

\* the number of pieces of the given kinds and colours
CountPieces(pieces, kinds, colours) ==
    Cardinality({x \in pieces : x.piece \in kinds /\ x.colour \in colours})

\* an endgame test without the shortcut for boards without queens
is_endgame_queenless_tested(b) ==
    /\ CountPieces(b.pieces, {"Knight", "Bishop"}, {"w"}) <= 1
    /\ CountPieces(b.pieces, {"Rook"}, {"w"}) = 0
    /\ CountPieces(b.pieces, {"Knight", "Bishop"}, {"b"}) <= 1
    /\ CountPieces(b.pieces, {"Rook"}, {"b"}) = 0

is_endgame(b) ==
    IF CountPieces(b.pieces, {"Queen"}, {"w", "b"}) = 0
    THEN TRUE
    ELSE LET white_minor_pieces == CountPieces(b.pieces, {"Knight", "Bishop"}, {"w"})
             white_rooks == CountPieces(b.pieces, {"Rook"}, {"w"})
             white_endgame == white_minor_pieces <= 1 /\ white_rooks = 0
             black_minor_pieces == CountPieces(b.pieces, {"Knight", "Bishop"}, {"b"})
             black_rooks == CountPieces(b.pieces, {"Rook"}, {"b"})
             black_endgame == black_minor_pieces <= 1 /\ black_rooks = 0
         IN  white_endgame /\ black_endgame

piece_square(piece, piece_colour, square, endgame) ==
    LET table == CASE piece = "Pawn" -> PAWN_TABLE
                   [] piece = "Knight" -> KNIGHT_TABLE
                   [] piece = "Bishop" -> BISHOP_TABLE
                   [] piece = "Rook" -> ROOK_TABLE
                   [] piece = "Queen" -> QUEEN_TABLE
                   [] piece = "King" -> IF endgame THEN KING_TABLE_ENDGAME ELSE KING_TABLE
        index == IF piece_colour = "w" THEN 63 - square ELSE square
    IN  table[index + 1]

\* the loop of evaluate over the occupied squares from square on, in the
\* order of the bitboard (a1 first), with the running score
RECURSIVE ScoreFrom(_, _, _, _)
ScoreFrom(pieces, endgame, square, score) ==
    LET rest == {x \in pieces : x.square >= square} IN
    IF rest = {} THEN score
    ELSE LET x == CHOOSE y \in rest : \A z \in rest : y.square <= z.square
             piece_score == i16(piece_value(x.piece)
                                + piece_square(x.piece, x.colour, x.square, endgame))
         IN  ScoreFrom(pieces, endgame, x.square + 1,
                       i16(IF x.colour = "w" THEN score + piece_score
                           ELSE score - piece_score))

\* evaluate, on a board given by its pieces
evaluate_board(b) ==
    LET score == ScoreFrom(b.pieces, is_endgame(b), 0, 0)
    IN  IF b.stm = "w" THEN score ELSE i16(-score)

\* ------------------------------------------------------------ the board library

None == 0

Mat(wq, bq, wr, br, wb, bb, wn, bn, wp, bp) ==
    [wq |-> wq, bq |-> bq, wr |-> wr, br |-> br, wb |-> wb, bb |-> bb,
     wn |-> wn, bn |-> bn, wp |-> wp, bp |-> bp]

Mv(mv, to, cap, pawn) == [mv |-> mv, to |-> to, cap |-> cap, pawn |-> pawn]

Pos(stm, check, mat, ev, moves) ==
    [stm |-> stm, check |-> check, mat |-> mat, ev |-> ev, moves |-> moves]

\* The positions the model plays on.  A move is named by mv (its source and
\* destination squares), leads to position to, and is a capture (the
\* destination holds an opposing piece) and/or a pawn move.
\*   0  start: K+B v K+P, white to move: a quiet king move (to 1) or BxP (to 2)
\*   1  black to move, one pawn move (to 3)
\*   2  K+B v K: insufficient material
\*   3  white is checkmated
\*   4  white K in check by an unguarded queen, only move KxQ (to 5)
\*   5  K v K (a draw wherever it is reached, never expanded)
\*   6  black is stalemated
\*   7  K+R v K+R, white to move: RxR (to 8) or a quiet rook move (to 9)
\*   8  K+R v K after RxR, black to move, one quiet king move (to 10)
\*   9  black to move, in check, one quiet king move (to 7)
\*  10  white to move, one quiet rook move (to 8)
\*  11  K+P v K+P, blocked pawns, white to move, one quiet king move (to 12)
\*  12  black to move, one quiet king move (to 11)
Game ==
    <<Pos("w", FALSE, Mat(0, 0, 0, 0, 1, 0, 0, 0, 0, 1), 230,
          <<Mv(1, 1, FALSE, FALSE), Mv(2, 2, TRUE, FALSE)>>),
      Pos("b", FALSE, Mat(0, 0, 0, 0, 1, 0, 0, 0, 0, 1), -240,
          <<Mv(3, 3, FALSE, TRUE)>>),
      Pos("b", FALSE, Mat(0, 0, 0, 0, 1, 0, 0, 0, 0, 0), -330, <<>>),
      Pos("w", TRUE, Mat(0, 0, 0, 0, 1, 0, 0, 0, 0, 1), 200, <<>>),
      Pos("w", TRUE, Mat(0, 1, 0, 0, 0, 0, 0, 0, 0, 0), -900,
          <<Mv(5, 5, TRUE, FALSE)>>),
      Pos("b", FALSE, Mat(0, 0, 0, 0, 0, 0, 0, 0, 0, 0), 0, <<>>),
      Pos("b", FALSE, Mat(1, 0, 0, 0, 0, 0, 0, 0, 0, 0), -900, <<>>),
      Pos("w", FALSE, Mat(0, 0, 1, 1, 0, 0, 0, 0, 0, 0), 20,
          <<Mv(7, 8, TRUE, FALSE), Mv(8, 9, FALSE, FALSE)>>),
      Pos("b", FALSE, Mat(0, 0, 1, 0, 0, 0, 0, 0, 0, 0), -500,
          <<Mv(9, 10, FALSE, FALSE)>>),
      Pos("b", TRUE, Mat(0, 0, 1, 1, 0, 0, 0, 0, 0, 0), -30,
          <<Mv(10, 7, FALSE, FALSE)>>),
      Pos("w", FALSE, Mat(0, 0, 1, 0, 0, 0, 0, 0, 0, 0), 510,
          <<Mv(11, 8, FALSE, FALSE)>>),
      Pos("w", FALSE, Mat(0, 0, 0, 0, 0, 0, 0, 0, 1, 1), 10,
          <<Mv(12, 12, FALSE, FALSE)>>),
      Pos("b", FALSE, Mat(0, 0, 0, 0, 0, 0, 0, 0, 1, 1), -10,
          <<Mv(13, 11, FALSE, FALSE)>>)>>

\* Beyond the table lies an open game: position TreeRoot and below it the
\* positions 2b and 2b + 1 that the two quiet moves of position b lead to.
\* No position repeats, none is in check, each has rooks on the board.
TreeRoot == 16

\* the number of moves played from TreeRoot to reach b
RECURSIVE TreeLevel(_)
TreeLevel(b) == IF b < 2 * TreeRoot THEN 0 ELSE 1 + TreeLevel(b \div 2)

TreePos(b) ==
    Pos(IF TreeLevel(b) % 2 = 0 THEN "w" ELSE "b", FALSE,
        Mat(0, 0, 1, 1, 0, 0, 0, 0, 2, 2), (((b % 101) * 37) % 101) - 50,
        <<Mv(2 * b, 2 * b, FALSE, FALSE), Mv(2 * b + 1, 2 * b + 1, FALSE, FALSE)>>)

\* A board on which White has promoted all eight pawns: king b1, queens c1,
\* d1, e1, f1, g1, a2, c2, d2 and e2, rooks f2 and g2, bishops a3 and b3,
\* knights d3 and e3, against the bare king on h8.
HeavyPieces ==
    {Placed("King", "w", 1), Placed("King", "b", 63)}
    \cup {Placed("Queen", "w", sq) : sq \in {2, 3, 4, 5, 6, 8, 10, 11, 12}}
    \cup {Placed("Rook", "w", sq) : sq \in {13, 14}}
    \cup {Placed("Bishop", "w", sq) : sq \in {16, 17}}
    \cup {Placed("Knight", "w", sq) : sq \in {19, 20}}

\* evaluate on that board, for either side to move
HeavyEval == [stm \in {"w", "b"} |-> evaluate_board(BoardOf(HeavyPieces, stm))]

\* Below 0 lies one line of play of a game with the material of HeavyPieces:
\* position -k is reached k - 1 plies from LineRoot, White moves first, Black
\* is in check after White's first move, and the one move followed from -k
\* is quiet and leads to -(k + 1).  The evaluation is that of HeavyPieces for
\* the side to move.
LineRoot == -1

LinePos(b) ==
    LET stm == IF (-b) % 2 = 1 THEN "w" ELSE "b" IN
    Pos(stm, b = LineRoot - 1,
        Mat(9, 0, 2, 0, 2, 0, 2, 0, 0, 0), HeavyEval[stm],
        IF -b < LineLen THEN <<Mv(b - 1, b - 1, FALSE, FALSE)>> ELSE <<>>)

\* From CheckRoot down lies a second line of play, CheckLen positions long:
\* each position has one quiet move, to the position below it, and every
\* position but the root has the side to move in check, so that each call
\* of negamax along it extends its depth.
CheckRoot == -101

CheckPos(b) ==
    LET k == CheckRoot - b
        stm == IF k % 2 = 0 THEN "w" ELSE "b"
    IN  Pos(stm, k > 0, Mat(0, 0, 1, 1, 0, 0, 0, 0, 2, 2),
            IF stm = "w" THEN 10 ELSE -10,
            IF k + 1 < CheckLen THEN <<Mv(b - 1, b - 1, FALSE, FALSE)>> ELSE <<>>)

\* positions are numbered from 0, the table from 1
At(b) ==
    IF b <= CheckRoot THEN CheckPos(b)
    ELSE IF b < 0 THEN LinePos(b)
    ELSE IF b < TreeRoot THEN Game[b + 1] ELSE TreePos(b)

\* Board::default()
StartPos == 11

\* MoveGen::new_legal in generator order
new_legal(b) == At(b).moves

\* Board::make_move_new
make_move_new(b, m) == m.to

\* Board::get_hash (Zobrist)
get_hash(b) == b

\* Board::checkers() != EMPTY
is_check_on(b) == At(b).check

\* Board::side_to_move() == Color::White
is_white(b) == At(b).stm = "w"

\* evaluate(board): the static evaluation, from the side to move
evaluate(b) == At(b).ev

\* SelectSeq without a LAMBDA: the moves of s whose cap field equals c
RECURSIVE FilterCap(_, _)
FilterCap(s, c) ==
    IF s = <<>> THEN <<>>
    ELSE IF Head(s).cap = c THEN <<Head(s)>> \o FilterCap(Tail(s), c)
         ELSE FilterCap(Tail(s), c)

\* the generator under the mask color_combined(!side_to_move): captures
captures(b) == FilterCap(new_legal(b), TRUE)

\* the legal moves of s that equal the hinted move pv
RECURSIVE FilterMv(_, _)
FilterMv(s, pv) ==
    IF s = <<>> THEN <<>>
    ELSE IF Head(s).mv = pv THEN <<Head(s)>> \o FilterMv(Tail(s), pv)
         ELSE FilterMv(Tail(s), pv)

\* ------------------------------------------------------------ search helpers

NoMove == Mv(None, 0, FALSE, FALSE)

\* pv.get(0).copied(): the mv of the first move of a pv, or None
pv_hint(pv) == IF pv = <<>> THEN None ELSE pv[1].mv

\* move_ordering: the captures are generated first, then the rest.  With a
\* hint only the moves equal to it are pushed (score 0); without one the
\* captures get score 1 and the others 2.  The sort keeps generator order
\* among equal scores.
move_ordering(b, pv) ==
    IF pv = None
    THEN captures(b) \o FilterCap(new_legal(b), FALSE)
    ELSE FilterMv(captures(b), pv) \o FilterMv(FilterCap(new_legal(b), FALSE), pv)

\* the History entry make_move and the position replay push for move m
history_entry(new_board, m) ==
    [hash |-> get_hash(new_board), is_reversible_move |-> m.cap \/ ~m.pawn]

is_insufficient_material(b) ==
    LET m == At(b).mat IN
    IF m.wq > 0 \/ m.bq > 0 THEN FALSE
    ELSE IF m.wr > 0 \/ m.br > 0 THEN FALSE
    ELSE IF m.wb > 0 /\ m.bb > 0 THEN FALSE
    ELSE IF m.wn > 0 /\ m.bn > 0 THEN FALSE
    ELSE IF m.wp > 0 \/ m.bp > 0 THEN FALSE
    ELSE TRUE

RECURSIVE CountHash(_, _)
CountHash(h, x) ==
    IF h = <<>> THEN 0
    ELSE (IF Head(h).hash = x THEN 1 ELSE 0) + CountHash(Tail(h), x)

\* a repetition test that fires on the second occurrence
is_twofold_repetition(b, h) == CountHash(h, get_hash(b)) >= 2

is_threefold_repetition(b, h) == CountHash(h, get_hash(b)) >= 3

\* the loop of is_fifty_move_rule over the entries lo..hi, in their order,
\* entered with the running count: the count after them.  The loop returns
\* when the count reaches 100, so a count of 100 is kept to the end.  (The
\* entries are taken in two halves, first the lower, to keep the evaluation
\* shallow.)
RECURSIVE FiftyScan(_, _, _, _)
FiftyScan(h, lo, hi, count) ==
    IF lo > hi THEN count
    ELSE IF lo = hi
    THEN (IF count >= 100 THEN count
          ELSE IF h[lo].is_reversible_move THEN count + 1 ELSE 0)
    ELSE LET mid == (lo + hi) \div 2
             c == FiftyScan(h, lo, mid, count)
         IN  IF c >= 100 THEN c ELSE FiftyScan(h, mid + 1, hi, c)

is_fifty_move_rule(h) == FiftyScan(h, 1, Len(h), 0) >= 100

is_draw(b, h) ==
    is_insufficient_material(b) \/ is_threefold_repetition(b, h) \/ is_fifty_move_rule(h)

\* ------------------------------------------------------------ search modes

Infinite ==
    [kind |-> "Infinite", movetime |-> 0, white_time |-> 0, black_time |-> 0,
     white_increment |-> 0, black_increment |-> 0, has_mtg |-> FALSE, moves_to_go |-> 0]

MoveTime(ms) == [Infinite EXCEPT !.kind = "MoveTime", !.movetime = ms]

GameTime(wt, bt, wi, bi, has, mtg) ==
    [kind |-> "GameTime", movetime |-> 0, white_time |-> wt, black_time |-> bt,
     white_increment |-> wi, black_increment |-> bi, has_mtg |-> has, moves_to_go |-> mtg]

\* a budget that is not clamped at zero
allocated_time_unclamped(gametime, white) ==
    LET clock == IF white THEN gametime.white_time ELSE gametime.black_time
        increment == IF white THEN gametime.white_increment ELSE gametime.black_increment
        time == IF gametime.has_mtg
                THEN (IF gametime.moves_to_go = 0 THEN clock
                      ELSE clock \div gametime.moves_to_go)
                ELSE clock \div 30
    IN  time + increment - 100

\* the budget iterative_deepening allocates for a GameTime search
allocated_time_of(gametime, white) ==
    LET clock == IF white THEN gametime.white_time ELSE gametime.black_time
        increment == IF white THEN gametime.white_increment ELSE gametime.black_increment
        time == IF gametime.has_mtg
                THEN (IF gametime.moves_to_go = 0 THEN clock
                      ELSE clock \div gametime.moves_to_go)
                ELSE clock \div 30
        time_slice == time + increment - 100
    IN  IF time_slice < 0 THEN 0 ELSE time_slice

\* the modes a go command of the model asks for: no limit, a move time of 0
\* or 1 ms, a game clock whose budget is 1 ms for White and clamped to 0
\* for Black
Modes ==
    {Infinite, MoveTime(0), MoveTime(1), GameTime(3030, 0, 0, 0, FALSE, 0)}

Start(sm) == [cmd |-> "Start", mode |-> sm]

Stop == [cmd |-> "Stop", mode |-> Infinite]

Quit == [cmd |-> "Quit", mode |-> Infinite]

\* check_terminate: one non-blocking receive from the control queue, then
\* the time limit of the mode.  The result is the queue and terminate after it.
check_terminate(q, terminate, sm, since_start, allocated) ==
    LET t1 == IF q = <<>> THEN terminate
              ELSE IF Head(q).cmd = "Stop" THEN "Stop"
              ELSE IF Head(q).cmd = "Quit" THEN "Quit"
              ELSE terminate
        t2 == IF sm.kind = "MoveTime" /\ since_start >= sm.movetime THEN "Stop"
              ELSE IF sm.kind = "GameTime" /\ since_start >= allocated THEN "Stop"
              ELSE t1
    IN  [q |-> IF q = <<>> THEN q ELSE Tail(q), terminate |-> t2]

\* nodes % 0x2000 == 0
negamax_polls(nodes) == nodes % POLL = 0

\* nodes & 0x2000 == 0
quiescence_polls(nodes) == (nodes \div POLL) % 2 = 0

\* ------------------------------------------------------------ state

VARIABLES
    board,          \* Arc<RwLock<Board>>: the shared position
    history,        \* Arc<RwLock<Vec<History>>>: the shared move history
    cq,             \* the worker's control channel (EngineToSearch)
    rq,             \* the coordinator's report channel (EngineReport)
    elapsed,        \* start_time.elapsed() of the running search, in ms
    ncmds,          \* lines the reader has read from standard input
    reader_quit,    \* the reader thread has read quit and ended
    nctl,           \* commands put on the control queue from outside the model
    cpc,            \* where the coordinator thread is
    cmsg,           \* the Position event the coordinator is handling
    written,        \* what the coordinator has sent to the writer
    wpc,            \* where the worker thread is
    halt,           \* the worker loop's halt flag
    search_mode,    \* refs.search_mode of the running search
    search_state,   \* refs.search_state of the running search
    stack,          \* the worker's call stack: the driver, then negamax/quiescence
    obs,            \* history variables the properties read
    probe           \* a function called on its own: its name, argument and result

vars == <<board, history, cq, rq, elapsed, ncmds, reader_quit, nctl, cpc, cmsg, written, wpc, halt,
          search_mode, search_state, stack, obs, probe>>

\* no function is called on its own while the engine runs
NoProbe == [fn |-> "none", done |-> TRUE]

\* SearchState::default()
SearchStateDefault ==
    [nodes |-> 0, ply |-> 0, depth |-> 0, seldepth |-> 0, terminate |-> "None",
     allocated_time |-> 0]

\* One activation record.  fn is "driver" (iterative_deepening), "negamax" or
\* "quiescence".  The driver's record keeps its depth in depth, best_move in
\* legal, root_pv in node_pv and eval in eval_score.  pv, the container a
\* call writes its line to, is the node_pv of the record below it.
\* in_board and in_history remember the shared state at the call's entry,
\* old_hist the history when make_move read old_pos.
Frame(fn, depth, alpha, beta, b, h) ==
    [fn |-> fn, pc |-> "entry", depth |-> depth, alpha |-> alpha, beta |-> beta,
     moves |-> <<>>, legal |-> NoMove, old_pos |-> 0, old_hist |-> <<>>, eval_score |-> 0,
     do_pvs |-> FALSE, is_check |-> FALSE, is_game_over |-> FALSE,
     node_pv |-> <<>>, in_board |-> b, in_history |-> h]

ObsInit ==
    [restored |-> TRUE,     \* the last call to return left board and history as at its entry
     unmade |-> TRUE,       \* the last unmake_move left the history as it was before its make_move
     stop_sent |-> FALSE,   \* a Stop entered the control queue during this search
     sums_after_stop |-> 0, \* Summaries emitted since then
     cancel_seen |-> FALSE, \* check_terminate consumed a Stop or a Quit in this search
     cancel_at |-> -1,      \* nodes when the first Stop entered the queue (polling specification)
     quit_seen |-> FALSE,   \* check_terminate consumed a Quit in this search
     coord_wrote |-> FALSE] \* the coordinator replaced board or history during this search

Top == stack[Len(stack)]

Searching == wpc = "search"

\* the coordinator holds the board write lock (and is about to take history's)
CoordHoldsBoard == cpc = "has_board"

\* the worker holds the board read guard of move_ordering
WorkerHoldsBoardRead == Searching /\ Top.pc = "order"

\* the worker holds the history write guard of make_move
WorkerHoldsHistory == Searching /\ Top.pc = "push"

Summary(depth, seldepth, cp, pv) ==
    [type |-> "Summary", depth |-> depth, seldepth |-> seldepth, cp |-> cp, pv |-> pv]

BestMove(m) ==
    [type |-> "BestMove", depth |-> 0, seldepth |-> 0, cp |-> 0, pv |-> <<m>>]

UciEvent(ev, arg) == [type |-> ev, arg |-> arg]

PositionArg(fen, moves) == [fen |-> fen, moves |-> moves, mode |-> Infinite]

GoArg(sm) == [fen |-> 0, moves |-> <<>>, mode |-> sm]

NoArg == GoArg(Infinite)

\* the worker can take the board lock: the coordinator neither holds the
\* write lock nor waits for it under a policy that makes new readers queue
BoardFree == cpc \notin {"has_board", "wait_board_pref"}

\* ------------------------------------------------------------ the worker: calls

\* the caller's record p once the call it made has returned v: the driver
\* ends its iteration; a scout search inside the window is searched again
\* with the full window and the same node_pv; otherwise eval_score = -v
Resume(p, v, b, h) ==
    IF p.fn = "driver"
    THEN <<[p EXCEPT !.pc = "iter_end", !.eval_score = v]>>
    ELSE IF p.pc = "scout" /\ -v > p.alpha /\ -v < p.beta
    THEN <<[p EXCEPT !.pc = "full", !.eval_score = -v],
           Frame("negamax", p.depth - 1, -p.beta, -p.alpha, b, h)>>
    ELSE <<[p EXCEPT !.pc = "unmake", !.eval_score = -v]>>

\* the stack after its top call returned v, with board b and history h
Return(stk, v, b, h) ==
    SubSeq(stk, 1, Len(stk) - 2) \o Resume(stk[Len(stk) - 1], v, b, h)

\* pv.clear(); pv.push(legal); pv.append(&mut node_pv) in the top call
SetPv(stk, f) ==
    [stk EXCEPT ![Len(stk) - 1].node_pv = <<f.legal>> \o f.node_pv]

\* obs after the call with record f returned, board b and history h in place
ObsReturn(o, f, b, h) ==
    [o EXCEPT !.restored = (b = f.in_board /\ h = f.in_history)]

\* obs after a poll of the control queue q
ObsPoll(o, polled, q) ==
    [o EXCEPT !.quit_seen = @ \/ (polled /\ q # <<>> /\ Head(q).cmd = "Quit"),
              !.cancel_seen = @ \/ (polled /\ q # <<>> /\ Head(q).cmd \in {"Stop", "Quit"})]

\* a guard that lets one more ply through
beyond_max_ply_late(ply) == ply > MAX_PLY + 1

\* refs.search_state.ply > MAX_PLY
beyond_max_ply(ply) == ply > MAX_PLY

\* an entry that looks at terminate only after it has polled
Polled_only_after_poll(polled) ==
    IF polled
    THEN check_terminate(cq, search_state.terminate, search_mode,
                         elapsed, search_state.allocated_time)
    ELSE [q |-> cq, terminate |-> "None"]

\* the control queue and terminate after the poll of an entry, if it polls
Polled(polled) ==
    IF polled
    THEN check_terminate(cq, search_state.terminate, search_mode,
                         elapsed, search_state.allocated_time)
    ELSE [q |-> cq, terminate |-> search_state.terminate]

\* negamax, lines 201-225: the poll, the early returns, the node count, the
\* check extension, the tail call of quiescence at depth 0; otherwise
\* move_ordering takes its board read guard
NegamaxEntry ==
    /\ Searching /\ Top.fn = "negamax" /\ Top.pc = "entry"
    /\ LET f == Top
           polled == negamax_polls(search_state.nodes)
           ct == Polled(polled)
           o == ObsPoll(obs, polled, cq)
       IN  /\ cq' = ct.q
           /\ IF ct.terminate # "None"
              THEN /\ search_state' = [search_state EXCEPT !.terminate = ct.terminate]
                   /\ stack' = Return(stack, 0, board, history)
                   /\ obs' = ObsReturn(o, f, board, history)
              ELSE /\ BoardFree
                   /\ IF beyond_max_ply(search_state.ply)
                      THEN /\ search_state' = search_state
                           /\ stack' = Return(stack, evaluate(board), board, history)
                           /\ obs' = ObsReturn(o, f, board, history)
                      ELSE LET is_check == is_check_on(board)
                               depth == IF is_check THEN f.depth + 1 ELSE f.depth
                           IN  /\ search_state' = [search_state EXCEPT !.nodes = @ + 1]
                               /\ stack' = [stack EXCEPT ![Len(stack)] =
                                      IF depth = 0
                                      THEN [f EXCEPT !.fn = "quiescence"]
                                      ELSE [f EXCEPT !.pc = "order", !.depth = depth,
                                                     !.is_check = is_check]]
                               /\ obs' = o
    /\ UNCHANGED <<probe, board, history, rq, elapsed, ncmds, reader_quit, nctl, cpc, cmsg, written, wpc, halt,
                   search_mode>>

\* move_ordering, lines 343-378, from its second board.read(), and the
\* return of negamax when there is no move to search
MoveOrdering ==
    /\ Searching /\ Top.pc = "order"
    /\ BoardFree
    /\ LET f == Top
           ordered_moves == move_ordering(board, pv_hint(stack[Len(stack) - 1].node_pv))
       IN  IF ordered_moves = <<>>
           THEN /\ stack' = Return(stack,
                                   IF f.is_check THEN -INFINITY + search_state.ply ELSE 0,
                                   board, history)
                /\ obs' = ObsReturn(obs, f, board, history)
           ELSE /\ stack' = [stack EXCEPT ![Len(stack)] =
                                 [f EXCEPT !.pc = "loop", !.moves = ordered_moves]]
                /\ obs' = obs
    /\ UNCHANGED <<probe, board, history, cq, rq, elapsed, ncmds, reader_quit, nctl, cpc, cmsg, written, wpc, halt,
                   search_mode, search_state>>

\* quiescence, lines 284-315: the poll, the early returns, the node count,
\* the stand-pat score and the generation of the captures
QuiescenceEntry ==
    /\ Searching /\ Top.fn = "quiescence" /\ Top.pc = "entry"
    /\ LET f == Top
           polled == quiescence_polls(search_state.nodes)
           ct == Polled(polled)
           o == ObsPoll(obs, polled, cq)
       IN  /\ cq' = ct.q
           /\ IF ct.terminate # "None"
              THEN /\ search_state' = [search_state EXCEPT !.terminate = ct.terminate]
                   /\ stack' = Return(stack, 0, board, history)
                   /\ obs' = ObsReturn(o, f, board, history)
              ELSE /\ BoardFree
                   /\ IF beyond_max_ply(search_state.ply)
                      THEN /\ search_state' = search_state
                           /\ stack' = Return(stack, evaluate(board), board, history)
                           /\ obs' = ObsReturn(o, f, board, history)
                      ELSE LET eval == evaluate(board)
                               alpha == IF eval > f.alpha THEN eval ELSE f.alpha
                               legal_moves == captures(board)
                           IN  /\ search_state' = [search_state EXCEPT !.nodes = @ + 1]
                               /\ IF eval >= f.beta
                                  THEN /\ stack' = Return(stack, f.beta, board, history)
                                       /\ obs' = ObsReturn(o, f, board, history)
                                  ELSE IF legal_moves = <<>>
                                  THEN /\ stack' = Return(stack, alpha, board, history)
                                       /\ obs' = ObsReturn(o, f, board, history)
                                  ELSE /\ stack' = [stack EXCEPT ![Len(stack)] =
                                              [f EXCEPT !.pc = "loop", !.alpha = alpha,
                                                        !.moves = legal_moves]]
                                       /\ obs' = o
    /\ UNCHANGED <<probe, board, history, rq, elapsed, ncmds, reader_quit, nctl, cpc, cmsg, written, wpc, halt,
                   search_mode>>

\* make_move, lines 381-387: old_pos is read, the new position is written to
\* the shared board, and the history write lock is taken
MakeMoveBoard ==
    /\ Searching /\ Top.pc = "loop"
    /\ BoardFree
    /\ LET f == Top
           legal == Head(f.moves)
       IN  /\ board' = make_move_new(board, legal)
           /\ stack' = [stack EXCEPT ![Len(stack)] =
                            [f EXCEPT !.pc = "push", !.legal = legal, !.old_pos = board,
                                      !.old_hist = history]]
    /\ UNCHANGED <<probe, history, cq, rq, elapsed, ncmds, reader_quit, nctl, cpc, cmsg, written, wpc, halt,
                   search_mode, search_state, obs>>

\* the seldepth make_move leaves after it incremented ply
seldepth_after(ply, seldepth) == IF ply > seldepth THEN ply ELSE seldepth

\* a node_pv that lives across the moves of the loop
node_pv_kept(f) == f.node_pv

\* let mut node_pv = Vec::new(): each move of the loop gets an empty line
node_pv_new(f) == <<>>

\* make_move, lines 387-399, from the board.read() under the history write
\* lock: the entry is pushed, ply and seldepth are counted.  Then the caller,
\* lines 234-247 (negamax) or 320-322 (quiescence): a drawn child scores 0,
\* any other is searched, with the scout window once do_pvs is set.
MakeMovePush ==
    /\ Searching /\ Top.pc = "push"
    /\ BoardFree
    /\ LET f == Top
           h == Append(history, history_entry(board, f.legal))
           ply == search_state.ply + 1
       IN  /\ history' = h
           /\ search_state' = [search_state EXCEPT
                                   !.ply = ply,
                                   !.seldepth = seldepth_after(ply, @)]
           /\ stack' =
                IF f.fn = "quiescence"
                THEN [stack EXCEPT ![Len(stack)] = [f EXCEPT !.pc = "full", !.node_pv = node_pv_new(f)]]
                     \o <<Frame("quiescence", 0, -f.beta, -f.alpha, board, h)>>
                ELSE IF is_draw(board, h)
                THEN [stack EXCEPT ![Len(stack)] =
                         [f EXCEPT !.pc = "unmake", !.node_pv = node_pv_new(f), !.eval_score = 0]]
                ELSE IF f.do_pvs
                THEN [stack EXCEPT ![Len(stack)] = [f EXCEPT !.pc = "scout", !.node_pv = node_pv_new(f)]]
                     \o <<Frame("negamax", f.depth - 1, -f.alpha - 1, -f.alpha, board, h)>>
                ELSE [stack EXCEPT ![Len(stack)] = [f EXCEPT !.pc = "full", !.node_pv = node_pv_new(f)]]
                     \o <<Frame("negamax", f.depth - 1, -f.beta, -f.alpha, board, h)>>
    /\ UNCHANGED <<probe, board, cq, rq, elapsed, ncmds, reader_quit, nctl, cpc, cmsg, written, wpc, halt,
                   search_mode, obs>>

\* a decrement that is lost: ply stays as make_move left it
unmake_ply_lost(ply) == ply

\* refs.search_state.ply -= 1
unmake_ply(ply) == ply - 1

\* Vec::pop
pop(h) == IF h = <<>> THEN h ELSE SubSeq(h, 1, Len(h) - 1)

\* unmake_move, lines 402-408, and the caller's lines 252-265 (negamax) or
\* 326-337 (quiescence): the fail-hard cutoff, the raise of alpha with the
\* pv update, the next move or the return of alpha
UnmakeMove ==
    /\ Searching /\ Top.pc = "unmake"
    /\ BoardFree
    /\ LET f == Top
           b == f.old_pos
           h == pop(history)
           raised == f.eval_score > f.alpha
           f1 == [f EXCEPT !.pc = "loop",
                           !.moves = Tail(@),
                           !.alpha = IF raised THEN f.eval_score ELSE @,
                           !.do_pvs = IF raised /\ f.fn = "negamax" THEN TRUE ELSE @]
           stk == [(IF raised THEN SetPv(stack, f) ELSE stack) EXCEPT ![Len(stack)] = f1]
           o == [obs EXCEPT !.unmade = (h = f.old_hist)]
       IN  /\ board' = b
           /\ history' = h
           /\ search_state' = [search_state EXCEPT !.ply = unmake_ply(@)]
           /\ IF f.eval_score >= f.beta
              THEN /\ stack' = Return(stack, f.beta, b, h)
                   /\ obs' = ObsReturn(o, f, b, h)
              ELSE IF f1.moves = <<>>
              THEN /\ stack' = Return(stk, f1.alpha, b, h)
                   /\ obs' = ObsReturn(o, f, b, h)
              ELSE /\ stack' = stk
                   /\ obs' = o
    /\ UNCHANGED <<probe, cq, rq, elapsed, ncmds, reader_quit, nctl, cpc, cmsg, written, wpc, halt, search_mode>>

\* ------------------------------------------------------------ the worker: driver

IsCancel(c) == c.cmd \in {"Stop", "Quit"}

RECURSIVE HasCancel(_)
HasCancel(q) == q # <<>> /\ (IsCancel(Head(q)) \/ HasCancel(Tail(q)))

\* the worker thread, lines 58-71, and for Start lines 73-83 and 115-154:
\* the budget of a GameTime search, the start time, the first iteration
WorkerRecv ==
    /\ wpc = "recv" /\ cq # <<>>
    /\ LET cmd == Head(cq) IN
       /\ cq' = Tail(cq)
       /\ IF cmd.cmd = "Start"
          THEN /\ cmd.mode.kind = "GameTime" => BoardFree
               /\ halt' = FALSE
               /\ wpc' = "search"
               /\ search_mode' = cmd.mode
               /\ search_state' =
                    [SearchStateDefault EXCEPT
                        !.allocated_time =
                            IF cmd.mode.kind = "GameTime"
                            THEN allocated_time_of(cmd.mode, is_white(board)) ELSE 0,
                        !.depth = 1]
               /\ stack' = <<[Frame("driver", 1, -INFINITY, INFINITY, board, history)
                                 EXCEPT !.pc = "call"],
                             Frame("negamax", 1, -INFINITY, INFINITY, board, history)>>
               /\ obs' = ObsInit
          ELSE /\ halt' = (cmd.cmd = "Stop" \/ halt)
               /\ wpc' = IF cmd.cmd = "Quit" THEN "done" ELSE "recv"
               /\ UNCHANGED <<search_mode, search_state, stack, obs>>
    /\ elapsed' = 0
    /\ UNCHANGED <<probe, board, history, rq, ncmds, reader_quit, nctl, cpc, cmsg, written>>

\* iterative_deepening, lines 156-191, after negamax returned to the root,
\* and the worker thread's lines 85-99: the Summary of an iteration that was
\* not cancelled, the next iteration, or the end of the loop with
\* best_move.unwrap() and the BestMove report
IterationEnd ==
    /\ Searching /\ Top.fn = "driver" /\ Top.pc = "iter_end"
    /\ LET d == Top
           root_pv == d.node_pv
           completed == search_state.terminate = "None"
           best_move == IF completed /\ root_pv # <<>> THEN root_pv[1] ELSE d.legal
           depth == IF completed THEN d.depth + 1 ELSE d.depth
           reports == IF completed
                      THEN <<Summary(d.depth, search_state.seldepth, d.eval_score, root_pv)>>
                      ELSE <<>>
           is_time_up == /\ search_mode.kind = "GameTime"
                         /\ elapsed >= search_state.allocated_time
           stop == is_time_up \/ ~completed
           o == [obs EXCEPT !.sums_after_stop =
                     IF completed /\ obs.stop_sent /\ @ < 2 THEN @ + 1 ELSE @]
       IN  IF depth <= MAX_PLY /\ ~stop
           THEN /\ search_state' = [search_state EXCEPT !.depth = depth]
                /\ stack' = <<[d EXCEPT !.pc = "call", !.depth = depth, !.legal = best_move],
                              Frame("negamax", depth, -INFINITY, INFINITY, board, history)>>
                /\ rq' = rq \o reports
                /\ obs' = o
                /\ UNCHANGED <<wpc, halt>>
           ELSE /\ stack' = <<>>
                /\ obs' = [ObsInit EXCEPT
                              !.quit_seen = obs.quit_seen,
                              !.sums_after_stop = IF o.sums_after_stop > 1 THEN 2 ELSE 0]
                /\ search_state' = SearchStateDefault
                /\ IF best_move = NoMove
                   THEN /\ wpc' = "panicked"
                        /\ rq' = rq \o reports
                        /\ halt' = halt
                   ELSE /\ rq' = rq \o reports \o <<BestMove(best_move)>>
                        /\ halt' = (halt \/ ~completed)
                        /\ wpc' = IF search_state.terminate = "Quit" THEN "done" ELSE "recv"
    /\ search_mode' = (IF Searching' THEN search_mode ELSE Infinite)
    /\ elapsed' = (IF Searching' THEN elapsed ELSE 0)
    /\ UNCHANGED <<probe, board, history, cq, ncmds, reader_quit, nctl, cpc, cmsg, written>>

\* a step inside negamax or quiescence
SearchStep ==
    \/ NegamaxEntry
    \/ MoveOrdering
    \/ QuiescenceEntry
    \/ MakeMoveBoard
    \/ MakeMovePush
    \/ UnmakeMove

Worker == WorkerRecv \/ SearchStep \/ IterationEnd

\* ------------------------------------------------------------ the clock

\* Time passes.  Only the time since start_time is ever read, and only by a
\* search with a time limit.
Tick ==
    /\ Searching /\ search_mode.kind # "Infinite"
    /\ elapsed < MaxTime
    /\ elapsed' = elapsed + 1
    /\ UNCHANGED <<probe, board, history, cq, rq, ncmds, reader_quit, nctl, cpc, cmsg, written,
                   wpc, halt, search_mode, search_state, stack, obs>>

\* ------------------------------------------------------------ the control queue

\* obs after command c entered the control queue
ObsSend(c) ==
    IF Searching
    THEN [obs EXCEPT !.stop_sent = @ \/ c.cmd = "Stop"]
    ELSE obs

\* the commands the worker-only specification lets arrive
ControlCmds == {Stop, Quit}

\* a command of the coordinator reaches the control queue (Search::send)
ControlArrives ==
    /\ nctl < MaxControl
    /\ wpc \in {"recv", "search"}
    /\ \E c \in ControlCmds :
           /\ cq' = Append(cq, c)
           /\ obs' = ObsSend(c)
    /\ nctl' = nctl + 1
    /\ UNCHANGED <<probe, board, history, rq, elapsed, ncmds, reader_quit, cpc, cmsg, written,
                   wpc, halt, search_mode, search_state, stack>>

\* ------------------------------------------------------------ the search alone

\* the replay of the moves of a position command from position b with
\* history h (main_loop, lines 59-68): the board and the history after it
RECURSIVE Replay(_, _, _)
Replay(b, h, moves) ==
    IF moves = <<>> THEN [board |-> b, history |-> h]
    ELSE LET nb == make_move_new(b, Head(moves)) IN
         Replay(nb, Append(h, history_entry(nb, Head(moves))), Tail(moves))

\* the root positions of the worker-only specification, as position
\* commands set them up
SearchRoots ==
    {PositionArg(StartPos, <<>>), PositionArg(0, <<>>),
     PositionArg(0, <<Mv(1, 1, FALSE, FALSE)>>), PositionArg(3, <<>>),
     PositionArg(4, <<>>), PositionArg(6, <<>>), PositionArg(7, <<>>),
     PositionArg(StartPos, <<Mv(12, 12, FALSE, FALSE), Mv(13, 11, FALSE, FALSE),
                             Mv(12, 12, FALSE, FALSE)>>)}

\* The worker waits on its control queue, which holds one Start; no reader
\* and no coordinator run.  cmsg is the position command that set the root up.
InitSearch ==
    /\ \E r \in SearchRoots :
           /\ board = Replay(r.fen, <<>>, r.moves).board
           /\ history = Replay(r.fen, <<>>, r.moves).history
           /\ cmsg = UciEvent("Position", r)
    /\ \E sm \in Modes : cq = <<Start(sm)>>
    /\ rq = <<>>
    /\ elapsed = 0
    /\ ncmds = 0
    /\ reader_quit = FALSE
    /\ nctl = 0
    /\ cpc = "recv"
    /\ written = <<>>
    /\ wpc = "recv"
    /\ halt = TRUE
    /\ search_mode = Infinite
    /\ search_state = SearchStateDefault
    /\ stack = <<>>
    /\ obs = ObsInit
    /\ probe = NoProbe

NextSearch == Worker \/ ControlArrives \/ Tick

SpecSearch == InitSearch /\ [][NextSearch]_vars

\* ------------------------------------------------------------ the polling windows

\* A search of the open game in Infinite mode, long enough to cross two
\* polling windows.  The coordinator's commands reach the control queue before
\* the first node is counted or when the node counter stands at POLL: a
\* repeated go, a stop.
PollCmds == {Start(Infinite), Stop}

PollArrives ==
    /\ Searching /\ search_state.nodes \in {0, POLL}
    /\ nctl < MaxPoll
    /\ \E c \in PollCmds :
           /\ cq' = Append(cq, c)
           /\ obs' = [ObsSend(c) EXCEPT
                          !.cancel_at = IF c.cmd = "Stop" /\ @ = -1
                                        THEN search_state.nodes ELSE @]
    /\ nctl' = nctl + 1
    /\ UNCHANGED <<probe, board, history, rq, elapsed, ncmds, reader_quit, cpc, cmsg, written,
                   wpc, halt, search_mode, search_state, stack>>

InitPoll ==
    /\ board = TreeRoot
    /\ history = <<>>
    /\ cq = <<Start(Infinite)>>
    /\ rq = <<>>
    /\ elapsed = 0
    /\ ncmds = 0
    /\ reader_quit = FALSE
    /\ nctl = 0
    /\ cpc = "recv"
    /\ cmsg = UciEvent("UciNewGame", NoArg)
    /\ written = <<>>
    /\ wpc = "recv"
    /\ halt = TRUE
    /\ search_mode = Infinite
    /\ search_state = SearchStateDefault
    /\ stack = <<>>
    /\ obs = ObsInit
    /\ probe = NoProbe

\* the search is followed up to MaxNodes nodes
NodeBound == search_state.nodes <= MaxNodes

NextPoll ==
    \/ WorkerRecv
    \/ NegamaxEntry /\ NodeBound'
    \/ QuiescenceEntry /\ NodeBound'
    \/ MoveOrdering
    \/ MakeMoveBoard
    \/ MakeMovePush
    \/ UnmakeMove
    \/ IterationEnd
    \/ PollArrives

SpecPoll == InitPoll /\ [][NextPoll]_vars

\* ------------------------------------------------------------ the deep line

\* An Infinite search from LineRoot or CheckRoot, left alone for all its
\* MAX_PLY iterations.
InitDeep ==
    /\ board \in {LineRoot, CheckRoot}
    /\ history = <<>>
    /\ cq = <<Start(Infinite)>>
    /\ rq = <<>>
    /\ elapsed = 0
    /\ ncmds = 0
    /\ reader_quit = FALSE
    /\ nctl = 0
    /\ cpc = "recv"
    /\ cmsg = UciEvent("UciNewGame", NoArg)
    /\ written = <<>>
    /\ wpc = "recv"
    /\ halt = TRUE
    /\ search_mode = Infinite
    /\ search_state = SearchStateDefault
    /\ stack = <<>>
    /\ obs = ObsInit
    /\ probe = NoProbe

NextDeep ==
    \/ WorkerRecv
    \/ SearchStep
    \/ IterationEnd

SpecDeep == InitDeep /\ [][NextDeep]_vars

\* ------------------------------------------------------------ the reader

\* the events report_thread emits for the lines the controller types (go
\* movetime is followed in the worker-only specification)
Cmds ==
    {UciEvent("Position", PositionArg(4, <<>>)),
     UciEvent("GoInfinite", GoArg(Infinite)),
     UciEvent("GoGameTime", GoArg(GameTime(3030, 0, 0, 0, FALSE, 0))),
     UciEvent("UciNewGame", NoArg), UciEvent("Stop", NoArg), UciEvent("Quit", NoArg)}

\* report_thread, lines 73-161: a line is read and its event sent to the
\* coordinator; quit ends the thread
ReaderSend ==
    /\ ~reader_quit /\ ncmds < MaxCmds
    /\ \E e \in Cmds :
           /\ rq' = Append(rq, e)
           /\ reader_quit' = (e.type = "Quit")
    /\ ncmds' = ncmds + 1
    /\ UNCHANGED <<probe, board, history, cq, elapsed, nctl, cpc, cmsg, written, wpc, halt,
                   search_mode, search_state, stack, obs>>

\* ------------------------------------------------------------ the coordinator

\* the worker thread has ended and dropped control_rx: a send to it fails
WorkerGone == wpc \in {"panicked", "done"}

\* the coordinator's state once board.write() has been granted for event m:
\* a position command goes on to history.write(); ucinewgame writes the
\* board and releases the lock
BoardGranted(m) ==
    IF m.type = "Position"
    THEN /\ cpc' = "has_board"
         /\ board' = board
    ELSE /\ cpc' = "new_game"
         /\ board' = StartPos

\* Search::send from the coordinator: command c enters the control queue,
\* or the coordinator panics on the closed channel
SearchSend(c, next) ==
    IF WorkerGone
    THEN /\ cpc' = "panicked"
         /\ UNCHANGED <<cq, obs>>
    ELSE /\ cpc' = next
         /\ cq' = Append(cq, c)
         /\ obs' = ObsSend(c)

\* a coordinator that hands the writer the newest report first
Forward_newest_first(w, r) == IF r.type = "BestMove" THEN <<>> ELSE <<r>> \o w

\* what the writer has been sent since the last bestmove, after report r
Forward(w, r) == IF r.type = "BestMove" THEN <<>> ELSE Append(w, r)

\* main_loop, lines 46-111: one event is received and handled.  A position
\* or ucinewgame event takes the board write lock, at once or after waiting
\* for the worker's read guard; under a lock that prefers writers the
\* waiting writer keeps new readers out (wait_board_pref).
EngineRecv ==
    /\ cpc = "recv" /\ rq # <<>>
    /\ LET m == Head(rq) IN
       /\ rq' = Tail(rq)
       /\ CASE m.type \in {"Summary", "BestMove"} ->
                 /\ written' = Forward(written, m)
                 /\ UNCHANGED <<board, cq, cpc, cmsg, obs>>
            [] m.type \in {"Position", "UciNewGame"} ->
                 /\ cmsg' = m
                 /\ IF WorkerHoldsBoardRead
                    THEN /\ cpc' \in {"wait_board", "wait_board_pref"}
                         /\ board' = board
                    ELSE BoardGranted(m)
                 /\ UNCHANGED <<cq, written, obs>>
            [] m.type = "Stop" ->
                 /\ SearchSend(Stop, "recv")
                 /\ UNCHANGED <<board, cmsg, written>>
            [] m.type = "Quit" ->
                 /\ SearchSend(Quit, "quit")
                 /\ UNCHANGED <<board, cmsg, written>>
            [] OTHER ->
                 /\ SearchSend(Start(m.arg.mode), "recv")
                 /\ UNCHANGED <<board, cmsg, written>>
    /\ UNCHANGED <<probe, history, elapsed, ncmds, reader_quit, nctl, wpc, halt, search_mode,
                   search_state, stack>>

\* board.write() returns once the worker has dropped its read guard
BoardWait ==
    /\ cpc \in {"wait_board", "wait_board_pref"}
    /\ ~WorkerHoldsBoardRead
    /\ BoardGranted(cmsg)
    /\ UNCHANGED <<probe, history, cq, rq, elapsed, ncmds, reader_quit, nctl, cmsg, written, wpc,
                   halt, search_mode, search_state, stack, obs>>

\* position, lines 54-69: history.write() is taken under the board write
\* lock, board and history are replaced and the moves replayed
PositionWrite ==
    /\ cpc = "has_board"
    /\ ~WorkerHoldsHistory
    /\ LET r == Replay(cmsg.arg.fen, <<>>, cmsg.arg.moves) IN
       /\ board' = r.board
       /\ history' = r.history
    /\ cpc' = "recv"
    /\ obs' = [obs EXCEPT !.coord_wrote = @ \/ Searching]
    /\ UNCHANGED <<probe, cq, rq, elapsed, ncmds, reader_quit, nctl, cmsg, written, wpc, halt,
                   search_mode, search_state, stack>>

\* ucinewgame, line 73: the history is cleared under its own write lock
NewGameHistory ==
    /\ cpc = "new_game"
    /\ ~WorkerHoldsHistory
    /\ history' = <<>>
    /\ cpc' = "recv"
    /\ obs' = [obs EXCEPT !.coord_wrote = @ \/ Searching]
    /\ UNCHANGED <<probe, board, cq, rq, elapsed, ncmds, reader_quit, nctl, cmsg, written, wpc, halt,
                   search_mode, search_state, stack>>

\* main returns after quit, or the main thread has panicked: the process
\* ends and every thread with it, and nothing of its state is left but what
\* was written
ProcessExit ==
    /\ cpc \in {"quit", "panicked"}
    /\ cpc' = "exited"
    /\ wpc' = "exited"
    /\ reader_quit' = TRUE
    /\ cq' = <<>>
    /\ rq' = <<>>
    /\ stack' = <<>>
    /\ search_state' = SearchStateDefault
    /\ search_mode' = Infinite
    /\ elapsed' = 0
    /\ halt' = TRUE
    /\ obs' = ObsInit
    /\ cmsg' = UciEvent("UciNewGame", NoArg)
    /\ board' = StartPos
    /\ history' = <<>>
    /\ ncmds' = MaxCmds
    /\ UNCHANGED <<probe, nctl, written>>

Coordinator == EngineRecv \/ BoardWait \/ PositionWrite \/ NewGameHistory

\* ------------------------------------------------------------ the engine

\* Engine::new and main_loop's setup: the start position, an empty history,
\* the three threads waiting
Init ==
    /\ board = StartPos
    /\ history = <<>>
    /\ cq = <<>>
    /\ rq = <<>>
    /\ elapsed = 0
    /\ ncmds = 0
    /\ reader_quit = FALSE
    /\ nctl = 0
    /\ cpc = "recv"
    /\ cmsg = UciEvent("UciNewGame", NoArg)
    /\ written = <<>>
    /\ wpc = "recv"
    /\ halt = TRUE
    /\ search_mode = Infinite
    /\ search_state = SearchStateDefault
    /\ stack = <<>>
    /\ obs = ObsInit
    /\ probe = NoProbe

\* the search is followed up to its iteration MaxIter
IterBound == search_state.depth <= MaxIter

Next ==
    \/ WorkerRecv
    \/ SearchStep
    \/ IterationEnd /\ IterBound'
    \/ Coordinator
    \/ ReaderSend
    \/ Tick
    \/ ProcessExit

Spec == Init /\ [][Next]_vars

\* ------------------------------------------------------------ functions on their own

\* the variables of the engine, which a function called on its own leaves alone
engine == <<board, history, cq, rq, elapsed, ncmds, reader_quit, nctl, cpc, cmsg, written,
            wpc, halt, search_mode, search_state, stack, obs>>

Call(fn, arg) == [fn |-> fn, arg |-> arg, res |-> 0, done |-> FALSE]

\* The boards the evaluator is called on: the kings on a1 and a8 and up to
\* MaxExtra pieces on f2, g3, h4 and e6, squares from which no piece attacks
\* either king.
ExtraPieces ==
    {Placed(k, c, sq) : k \in {"Pawn", "Knight", "Bishop", "Rook", "Queen"},
                        c \in {"w", "b"}, sq \in {13, 22, 31, 44}}

RECURSIVE Placements(_)
Placements(n) ==
    IF n = 0 THEN {{}}
    ELSE LET less == Placements(n - 1) IN
         less \cup UNION {{S \cup {x} : x \in {y \in ExtraPieces :
                                                      \A z \in S : z.square # y.square}} :
                          S \in less}

Kings == {Placed("King", "w", 0), Placed("King", "b", 56)}

EvalBoards ==
    {BoardOf(Kings \cup S, stm) : S \in Placements(MaxExtra), stm \in {"w", "b"}}
    \cup {BoardOf(HeavyPieces, stm) : stm \in {"w", "b"}}

EvaluateCall ==
    /\ probe.fn = "evaluate" /\ ~probe.done
    /\ probe' = [probe EXCEPT !.res = evaluate_board(probe.arg), !.done = TRUE]
    /\ UNCHANGED engine

IsEndgameCall ==
    /\ probe.fn = "is_endgame" /\ ~probe.done
    /\ probe' = [probe EXCEPT !.res = is_endgame(probe.arg), !.done = TRUE]
    /\ UNCHANGED engine

\* the position after the first move from StartPos
OtherPos == make_move_new(StartPos, new_legal(StartPos)[1])

\* `as i8`: the low 8 bits, signed
i8(x) == ((x + 128) % 256) - 128

abs(x) == IF x < 0 THEN -x ELSE x

signum(x) == IF x < 0 THEN -1 ELSE IF x > 0 THEN 1 ELSE 0

\* the score the writer prints for a Summary: (cp, mate), one of them None
uci_score(cp) ==
    IF abs(cp) > INFINITY \div 2
    THEN LET mate_in_plies == INFINITY - abs(cp)
             sign == signum(cp)
             mate_in_moves == (mate_in_plies \div 2) + (mate_in_plies % 2)
         IN  [kind |-> "mate", value |-> i8(sign * mate_in_moves)]
    ELSE [kind |-> "cp", value |-> cp]

ScoreCall ==
    /\ probe.fn = "uci_score" /\ ~probe.done
    /\ probe' = [probe EXCEPT !.res = uci_score(probe.arg), !.done = TRUE]
    /\ UNCHANGED engine

\* Option<T>: None is the empty sequence, Some(v) is <<v>>
Some(v) == <<v>>

is_some(o) == o # <<>>

unwrap(o) == o[1]

\* UciTimeControl::TimeLeft as the parser hands it to the reader: the fields
\* a go line omits are None
TimeLeft(white_time, black_time, white_increment, black_increment, moves_to_go) ==
    [white_time |-> white_time, black_time |-> black_time,
     white_increment |-> white_increment, black_increment |-> black_increment,
     moves_to_go |-> moves_to_go]

\* the go lines the reader is given: each clock and increment present or
\* omitted, movestogo 40 or omitted
TimeLefts ==
    {TimeLeft(wt, bt, wi, bi, mtg) :
        wt \in {<<>>, Some(60000)}, bt \in {<<>>, Some(60000)},
        wi \in {<<>>, Some(0), Some(50)}, bi \in {<<>>, Some(0), Some(50)},
        mtg \in {<<>>, Some(40)}}

\* the four unwrap() calls of the TimeLeft arm: one of them panics on None
time_left_panics(tc) ==
    \/ ~is_some(tc.white_time)
    \/ ~is_some(tc.black_time)
    \/ ~is_some(tc.white_increment)
    \/ ~is_some(tc.black_increment)

\* the GameTime the TimeLeft arm builds; moves_to_go stays an Option
game_time_of(tc) ==
    GameTime(unwrap(tc.white_time), unwrap(tc.black_time),
             unwrap(tc.white_increment), unwrap(tc.black_increment),
             is_some(tc.moves_to_go),
             IF is_some(tc.moves_to_go) THEN unwrap(tc.moves_to_go) ELSE 0)

\* report_thread on a go line with clocks: the event is built and sent to
\* the coordinator, or the thread panics in unwrap() and sends nothing
ReaderGo ==
    /\ probe.fn = "report_thread" /\ ~probe.done
    /\ IF time_left_panics(probe.arg)
       THEN /\ probe' = [probe EXCEPT !.res = "panicked", !.done = TRUE]
            /\ rq' = rq
       ELSE /\ probe' = [probe EXCEPT !.res = "sent", !.done = TRUE]
            /\ rq' = Append(rq, UciEvent("GoGameTime", GoArg(game_time_of(probe.arg))))
    /\ ncmds' = ncmds + 1
    /\ UNCHANGED <<board, history, cq, elapsed, reader_quit, nctl, cpc, cmsg, written,
                   wpc, halt, search_mode, search_state, stack, obs>>

\* the positions move_ordering is called on, and the hints: none, or the
\* mv of any move of the table (a move of the position or of another one)
OrderingBoards == 0..12 \cup {TreeRoot}

Hints == {None} \cup 1..13

MoveOrderingCall ==
    /\ probe.fn = "move_ordering" /\ ~probe.done
    /\ probe' = [probe EXCEPT !.res = move_ordering(probe.arg.board, probe.arg.pv),
                              !.done = TRUE]
    /\ UNCHANGED engine

\* n history entries with the same flag
Run(n, reversible) ==
    [i \in 1..n |-> [hash |-> get_hash(StartPos), is_reversible_move |-> reversible]]

\* The histories the fifty-move test is called on: a run of reversible
\* entries, then non-reversible ones, then reversible ones again.
FiftyHistories ==
    {Run(a, TRUE) \o Run(b, FALSE) \o Run(c, TRUE) :
        a \in {0, 99, 100}, b \in {0, 1}, c \in {0, 1, 98, 99, 100, 101}}

\* The histories of at most n entries of a game that moves between two
\* positions, every move reversible.
RECURSIVE RepetitionHistories(_)
RepetitionHistories(n) ==
    IF n = 0 THEN {<<>>}
    ELSE LET less == RepetitionHistories(n - 1) IN
         less \cup {Append(h, [hash |-> get_hash(b), is_reversible_move |-> TRUE]) :
                        h \in less, b \in {StartPos, OtherPos}}

FiftyCall ==
    /\ probe.fn = "is_fifty_move_rule" /\ ~probe.done
    /\ probe' = [probe EXCEPT !.res = is_fifty_move_rule(probe.arg), !.done = TRUE]
    /\ UNCHANGED engine

ThreefoldCall ==
    /\ probe.fn = "is_threefold_repetition" /\ ~probe.done
    /\ probe' = [probe EXCEPT
                     !.res = is_threefold_repetition(probe.arg.board, probe.arg.history),
                     !.done = TRUE]
    /\ UNCHANGED engine

Calls ==
    {Call("evaluate", b) : b \in EvalBoards}
    \cup {Call("is_endgame", b) : b \in {x \in EvalBoards : x.stm = "w"}}
    \cup {Call("is_fifty_move_rule", h) : h \in FiftyHistories}
    \cup {Call("is_threefold_repetition", [board |-> b, history |-> h]) :
              b \in {StartPos, OtherPos}, h \in RepetitionHistories(MaxHistory)}
    \cup {Call("uci_score", cp) : cp \in (-INFINITY)..INFINITY}
    \cup {Call("report_thread", tc) : tc \in TimeLefts}
    \cup {Call("move_ordering", [board |-> b, pv |-> pv]) :
              b \in OrderingBoards, pv \in Hints}

\* The go commands whose budget is computed: clocks and increments for both
\* sides, moves_to_go absent, 0, 1 or 40.  The clocks are multiples of the
\* divisors, so that every slice is a whole number of milliseconds.
Clocks == {-1200, 0, 1200, 3000, 6000}

Increments == {0, 50, 150}

TimeModes ==
    {GameTime(wt, bt, wi, bi, FALSE, 0) :
        wt \in Clocks, bt \in Clocks, wi \in Increments, bi \in Increments}
    \cup {GameTime(wt, bt, wi, bi, TRUE, m) :
        wt \in Clocks, bt \in Clocks, wi \in Increments, bi \in Increments, m \in {0, 1, 40}}
    \cup {Infinite, MoveTime(1)}

\* Either one function is about to be called on its own, or the worker is
\* about to receive a Start with White (StartPos) or Black to move.
InitUnits ==
    /\ \/ /\ probe \in Calls
          /\ board = StartPos
          /\ cq = <<>>
       \/ /\ probe = NoProbe
          /\ board \in {StartPos, OtherPos}
          /\ \E sm \in TimeModes : cq = <<Start(sm)>>
    /\ history = <<>>
    /\ rq = <<>>
    /\ elapsed = 0
    /\ ncmds = 0
    /\ reader_quit = FALSE
    /\ nctl = 0
    /\ cpc = "recv"
    /\ cmsg = UciEvent("UciNewGame", NoArg)
    /\ written = <<>>
    /\ wpc = "recv"
    /\ halt = TRUE
    /\ search_mode = Infinite
    /\ search_state = SearchStateDefault
    /\ stack = <<>>
    /\ obs = ObsInit

NextUnits ==
    \/ EvaluateCall
    \/ IsEndgameCall
    \/ FiftyCall
    \/ ThreefoldCall
    \/ ScoreCall
    \/ ReaderGo
    \/ MoveOrderingCall
    \/ WorkerRecv

SpecUnits == InitUnits /\ [][NextUnits]_vars

\* ------------------------------------------------------------ properties

\* the reports (Summary, BestMove) of a channel, in its order
RECURSIVE Reports(_)
Reports(q) ==
    IF q = <<>> THEN <<>>
    ELSE IF Head(q).type \in {"Summary", "BestMove"} THEN <<Head(q)>> \o Reports(Tail(q))
         ELSE Reports(Tail(q))

\* the messages of type t in q
RECURSIVE CountType(_, _)
CountType(q, t) ==
    IF q = <<>> THEN 0
    ELSE (IF Head(q).type = t THEN 1 ELSE 0) + CountType(Tail(q), t)

\* the control queue holds a Start
RECURSIVE HasStart(_)
HasStart(q) == q # <<>> /\ (Head(q).cmd = "Start" \/ HasStart(Tail(q)))

\* the worker has taken the Start of the worker-only specification and its
\* search is over
SearchOver == wpc \in {"recv", "done", "panicked"} /\ ~HasStart(cq)

\* the driver is back from the root call of an iteration
RootReturned == Searching /\ Top.fn = "driver" /\ Top.pc = "iter_end"

\* C1: every Start the idle worker receives is answered by exactly one
\* BestMove: once the search of the worker-only specification is over, the
\* report channel holds exactly one BestMove.
C1_StartAnsweredByBestMove ==
    SearchOver => CountType(rq, "BestMove") = 1

\* the reports sent to the writer and those still on their way to it
AllReports == written \o Reports(rq)

\* the number of Summaries that follow the last BestMove of r
RECURSIVE OpenSummaries(_)
OpenSummaries(r) ==
    IF r = <<>> \/ r[Len(r)].type = "BestMove" THEN 0
    ELSE 1 + OpenSummaries(SubSeq(r, 1, Len(r) - 1))

\* the Summaries of r carry the depths 1, 2, 3, ... from the start and from
\* each BestMove on
DepthsInOrder(r) ==
    \A i \in 1..Len(r) :
        r[i].type = "Summary" =>
            r[i].depth = (IF i = 1 \/ r[i - 1].type = "BestMove" THEN 1
                          ELSE r[i - 1].depth + 1)

C2_Order ==
    /\ DepthsInOrder(AllReports)
    /\ Searching => OpenSummaries(AllReports) = search_state.depth - 1
    /\ wpc \in {"recv", "done"} => OpenSummaries(AllReports) = 0

C2_Cancelled ==
    (Searching /\ search_state.terminate # "None" /\ stack' # stack /\ wpc' # "exited")
        => CountType(rq', "Summary") = CountType(rq, "Summary")

\* C2: the reports reach the writer in the order the worker emits them, the
\* Summaries of a search carry the depths 1, 2, 3, ..., one for each completed
\* iteration (depth - 1 of them while iteration depth runs), no Summary
\* follows the BestMove of its search, and no step of a cancelled search
\* emits a Summary.
C2_ReportsInIterationOrder == []C2_Order /\ [][C2_Cancelled]_vars

\* C2 witness: two Summaries have reached the writer and the BestMove of the
\* cancelled search is on its way
C2_Witness ==
    /\ Len(written) >= 2
    /\ rq # <<>> /\ Head(rq).type = "BestMove"
    /\ halt

\* the root of the running search has a legal move
RootHasMove == Searching /\ new_legal(stack[1].in_board) # <<>>

\* C3: after a Stop was sent to the worker during a search, at most one more
\* Summary is emitted before the search ends, here in the searches whose
\* root has a legal move.
C3_AtMostOneSummaryAfterStop == RootHasMove => obs.sums_after_stop <= 1

\* the polling window: while a Stop waits in the control queue of a running
\* search and terminate is not yet set, the node counter has grown by at most
\* POLL since the Stop was queued
CancelObservedWithinPoll ==
    (Searching /\ obs.cancel_at >= 0 /\ search_state.terminate = "None")
        => search_state.nodes - obs.cancel_at <= POLL

\* the unwinding: a search in which check_terminate took a Stop or a Quit from
\* the control queue comes back to the driver with a best move to emit
CancelledSearchEmitsBestMove ==
    (RootReturned /\ obs.cancel_seen) => Top.legal # NoMove

\* C4: a Stop in the control queue of a running search is observed (terminate
\* is set) before the node counter has grown by more than POLL, and the
\* search then unwinds to the driver and emits BestMove.
C4_CancellationObserved ==
    CancelObservedWithinPoll /\ CancelledSearchEmitsBestMove

\* C5: once check_terminate has consumed a Quit during a search, the worker
\* thread leaves its command loop after the search: it never waits for a
\* further command.
C5_QuitLeavesCommandLoop == ~(obs.quit_seen /\ wpc = "recv")

\* C6: the coordinator replaces the board or the history only when no search
\* is active.
C6_WritesOnlyWhenIdle == ~obs.coord_wrote

\* C7: during a search the worker is never blocked for good: it can take a
\* step, or the coordinator, which holds or waits for a lock, can.
C7_WorkerProceeds ==
    (Searching /\ cpc \notin {"quit", "panicked", "exited"})
        => ENABLED (Worker \/ BoardWait \/ PositionWrite \/ NewGameHistory)

\* C8: make_move followed by unmake_move pops exactly the entry the make
\* pushed: the history after the unmake equals the history before the make.
C8_MakeUnmakeRestores == obs.unmade

\* C9: after the root call of an iteration returns, completed, cut off or
\* cancelled, ply is 0.
C9_PlyZeroAtRoot == RootReturned => search_state.ply = 0

\* C9 witness: the root call returned from a cancelled iteration that had
\* gone at least two plies deep
C9_Witness ==
    /\ RootReturned
    /\ search_state.terminate # "None"
    /\ search_state.seldepth >= 2

\* C10: seldepth >= depth during a search, here where an iteration has
\* completed with a principal variation and its Summary is about to report
\* both.
C10_SeldepthAtLeastDepth ==
    (RootReturned /\ search_state.terminate = "None" /\ Top.node_pv # <<>>)
        => search_state.seldepth >= search_state.depth

\* the board with the colours of all pieces swapped and the ranks mirrored
\* (a1 <-> a8), the other side to move
mirror(b) ==
    BoardOf({Placed(x.piece, IF x.colour = "w" THEN "b" ELSE "w",
                    8 * (7 - (x.square \div 8)) + (x.square % 8)) : x \in b.pieces},
            IF b.stm = "w" THEN "b" ELSE "w")

Evaluated == probe.fn = "evaluate" /\ probe.done

\* the evaluation is the same for the side to move of the mirrored board
EvaluateMirrorSame == Evaluated => probe.res = evaluate_board(mirror(probe.arg))

\* C18: evaluate on a board with White to move equals minus evaluate on the
\* mirrored board with Black to move.
C18_EvaluateMirrorNegated ==
    (Evaluated /\ probe.arg.stm = "w") => probe.res = -evaluate_board(mirror(probe.arg))

Queens(b) == {x \in b.pieces : x.piece = "Queen"}

WithoutPiece(b, x) == BoardOf(b.pieces \ {x}, b.stm)

EndgameChecked == probe.fn = "is_endgame" /\ probe.done

\* no queen on the board, or both sides with at most one minor piece and no rook
EndgameRule(b) ==
    \/ Queens(b) = {}
    \/ \A c \in {"w", "b"} :
           /\ Cardinality({x \in b.pieces : x.colour = c
                                             /\ x.piece \in {"Knight", "Bishop"}}) <= 1
           /\ {x \in b.pieces : x.colour = c /\ x.piece = "Rook"} = {}

\* C19: is_endgame is true exactly under EndgameRule, and a board for which
\* it is true stays an endgame when any one queen is taken off.
C19_EndgameMonotone ==
    EndgameChecked =>
        /\ probe.res = EndgameRule(probe.arg)
        /\ probe.res => \A q \in Queens(probe.arg) : is_endgame(WithoutPiece(probe.arg, q))

\* an endgame with a queen and a minor piece on the board
C19_Witness ==
    /\ EndgameChecked /\ probe.res
    /\ Queens(probe.arg) # {}
    /\ \E x \in probe.arg.pieces : x.piece \in {"Knight", "Bishop"}

\* C11: every score negamax or quiescence has returned to its caller, which
\* keeps it (negated, below the root) in eval_score, lies in
\* [-INFINITY, INFINITY].
C11_ScoresWithinInfinity ==
    \A i \in 1..Len(stack) : stack[i].eval_score \in (-INFINITY)..INFINITY

\* the static evaluation lies in [-INFINITY, INFINITY]
EvaluateWithinInfinity == Evaluated => probe.res \in (-INFINITY)..INFINITY

\* the budget of a GameTime search: the slice of the side to move's clock,
\* plus its increment, minus 100 ms, not below zero
Budget(gametime, white) ==
    LET clock == IF white THEN gametime.white_time ELSE gametime.black_time
        inc == IF white THEN gametime.white_increment ELSE gametime.black_increment
        slice == IF ~gametime.has_mtg THEN clock \div 30
                 ELSE IF gametime.moves_to_go > 0 THEN clock \div gametime.moves_to_go
                 ELSE clock
    IN  IF slice + inc - 100 < 0 THEN 0 ELSE slice + inc - 100

\* C12: a GameTime search runs with allocated_time = Budget for the side to
\* move at the root; an Infinite or MoveTime search leaves allocated_time at
\* its default, and its time check does not read it.
C12_AllocatedBudget ==
    Searching =>
        IF search_mode.kind = "GameTime"
        THEN search_state.allocated_time = Budget(search_mode, is_white(stack[1].in_board))
        ELSE /\ search_state.allocated_time = SearchStateDefault.allocated_time
             /\ \A a \in {0, 1, 1000} :
                    check_terminate(cq, "None", search_mode, elapsed, a)
                        = check_terminate(cq, "None", search_mode, elapsed, 0)

\* a search for Black with moves_to_go = 40 and a budget above zero
C12_Witness ==
    /\ Searching /\ search_mode.kind = "GameTime"
    /\ ~is_white(stack[1].in_board)
    /\ search_mode.has_mtg /\ search_mode.moves_to_go = 40
    /\ search_mode.black_time # search_mode.white_time
    /\ search_state.allocated_time > 0

\* not a pawn move and not a capture
Reversible(m) == ~m.pawn /\ ~m.cap

\* the entries the replay of a position command pushed carry the flag of
\* their moves
ReplayFlags ==
    (wpc = "recv" /\ cmsg.type = "Position" /\ Len(history) = Len(cmsg.arg.moves))
        => \A i \in 1..Len(history) :
               history[i].is_reversible_move = Reversible(cmsg.arg.moves[i])

\* the entry make_move pushes carries the flag of its move
MakeMoveFlag ==
    (Searching /\ Top.pc = "push" /\ Len(history') = Len(history) + 1)
        => history'[Len(history')].is_reversible_move = Reversible(Top.legal)

\* C13: every history entry pushed for an applied move, by make_move and by
\* the replay of a position command, has its flag true exactly when the move
\* was not a pawn move and not a capture.
C13_ReversibleFlag == []ReplayFlags /\ [][MakeMoveFlag]_vars

\* the number of times position b has been reached in the game: the
\* position the game started from and the positions after each move
Reached(b) ==
    (IF cmsg.type = "Position" /\ get_hash(cmsg.arg.fen) = get_hash(b) THEN 1 ELSE 0)
    + CountHash(history, get_hash(b))

\* C16: negamax does not recurse into a child whose position has been
\* reached three times in the game: no call made by negamax starts on such a
\* position.
C16_RepeatedChildNotSearched ==
    ~(/\ Searching /\ Len(stack) >= 3
      /\ Top.pc = "entry" /\ stack[Len(stack) - 1].fn = "negamax"
      /\ Reached(board) >= 3)

FiftyChecked == probe.fn = "is_fifty_move_rule" /\ probe.done

\* the last 100 entries of h exist and are all marked reversible
ReversibleSuffix(h) ==
    /\ Len(h) >= 100
    /\ \A i \in (Len(h) - 99)..Len(h) : h[i].is_reversible_move

\* C14: is_fifty_move_rule reports a draw iff the last 100 entries of the
\* history are all marked reversible.
C14_FiftyMoveSuffix == FiftyChecked => probe.res = ReversibleSuffix(probe.arg)

ThreefoldChecked == probe.fn = "is_threefold_repetition" /\ probe.done

\* the entries of h that carry the hash of board b
Occurrences(b, h) == {i \in 1..Len(h) : h[i].hash = get_hash(b)}

\* C15: is_threefold_repetition is true iff the hash of the current position
\* appears three or more times in the history.
C15_ThreefoldIffThreeEntries ==
    ThreefoldChecked =>
        probe.res = (Cardinality(Occurrences(probe.arg.board, probe.arg.history)) >= 3)

\* the entry pushed for the current position is the third with its hash
C15_Witness ==
    /\ ThreefoldChecked /\ probe.res
    /\ Len(probe.arg.history) \in Occurrences(probe.arg.board, probe.arg.history)
    /\ Cardinality(Occurrences(probe.arg.board, probe.arg.history)) = 3

\* every BestMove among the reports follows a Summary, that of the last
\* completed iteration of its search, and carries the first move of its pv
BestMoveFromLastSummary ==
    \A i \in 1..Len(AllReports) :
        AllReports[i].type = "BestMove"
            => /\ i > 1
               /\ AllReports[i - 1].type = "Summary"
               /\ AllReports[i - 1].pv # <<>>
               /\ AllReports[i].pv[1] = AllReports[i - 1].pv[1]

\* the move is one of the legal moves of position b
LegalIn(b, m) == \E j \in 1..Len(new_legal(b)) : new_legal(b)[j] = m

\* a search that ends with a BestMove reports a legal move of the position
\* its driver was entered on
BestMoveLegalAtRoot ==
    (Searching /\ wpc' \in {"recv", "done"} /\ rq' # rq)
        => LegalIn(stack[1].in_board, rq'[Len(rq')].pv[1])

\* C17: the move of BestMove is the first move of the principal variation of
\* the last completed iteration and a legal move of the root position the
\* search was started from.
C17_BestMoveFromCompletedIteration ==
    []BestMoveFromLastSummary /\ [][BestMoveLegalAtRoot]_vars

ScoreWritten == probe.fn = "uci_score" /\ probe.done

\* the number of moves to the mate a score of cp stands for, signed
MateInMoves(cp) ==
    LET plies == INFINITY - abs(cp) IN
    signum(cp) * ((plies \div 2) + (plies % 2))

\* C20: for a score cp in [-INFINITY, INFINITY] the writer reports
\* mate = MateInMoves(cp) if |cp| > INFINITY/2 and the raw cp otherwise; a
\* score of INFINITY - 1 is reported as mate 1.
C20_MateScore ==
    ScoreWritten =>
        /\ probe.res = IF abs(probe.arg) > INFINITY \div 2
                       THEN [kind |-> "mate", value |-> MateInMoves(probe.arg)]
                       ELSE [kind |-> "cp", value |-> probe.arg]
        /\ probe.arg = INFINITY - 1 => probe.res = [kind |-> "mate", value |-> 1]

\* the mate scores a search returns, at most MAX_PLY + 1 plies from the
\* root, are reported without wrap-around
MateScoreNearRoot ==
    (ScoreWritten /\ abs(probe.arg) >= INFINITY - (MAX_PLY + 1))
        => probe.res = [kind |-> "mate", value |-> MateInMoves(probe.arg)]

GoRead == probe.fn = "report_thread" /\ probe.done

\* an omitted increment counts as zero
OrZero(o) == IF o = <<>> THEN 0 ELSE o[1]

\* the event the reader owes the coordinator for a go line with both clocks
GoGameTimeEvent(tc) ==
    UciEvent("GoGameTime",
             GoArg(GameTime(tc.white_time[1], tc.black_time[1],
                            OrZero(tc.white_increment), OrZero(tc.black_increment),
                            tc.moves_to_go # <<>>, OrZero(tc.moves_to_go))))

\* C21: a go command that gives wtime and btime but omits winc, binc or
\* movestogo is accepted: the reader does not abort and emits a GoGameTime
\* event with the missing increments treated as zero.
C21_GoWithoutIncrementsAccepted ==
    (GoRead /\ probe.arg.white_time # <<>> /\ probe.arg.black_time # <<>>)
        => /\ probe.res = "sent"
           /\ rq = <<GoGameTimeEvent(probe.arg)>>

\* a go command with both clocks and both increments is accepted, with or
\* without movestogo
GoWithIncrementsAccepted ==
    (/\ GoRead
     /\ probe.arg.white_time # <<>> /\ probe.arg.black_time # <<>>
     /\ probe.arg.white_increment # <<>> /\ probe.arg.black_increment # <<>>)
        => /\ probe.res = "sent"
           /\ rq = <<GoGameTimeEvent(probe.arg)>>

Ordered == probe.fn = "move_ordering" /\ probe.done

\* s holds every move of t exactly once
Permutation(s, t) ==
    /\ Len(s) = Len(t)
    /\ \A i \in 1..Len(t) : \E j \in 1..Len(s) : s[j] = t[i]
    /\ \A i, j \in 1..Len(s) : s[i] = s[j] => i = j

\* the group of move m under hint pv: the hinted move, a capture, the rest
Group(m, pv) == IF pv # None /\ m.mv = pv THEN 0 ELSE IF m.cap THEN 1 ELSE 2

\* the groups of s never decrease
Grouped(s, pv) == \A i, j \in 1..Len(s) : i < j => Group(s[i], pv) <= Group(s[j], pv)

\* C22: for every position and every optional hint move_ordering returns
\* every legal move exactly once, the hinted move first when it is legal,
\* then the captures, then the remaining moves.
C22_MoveOrderingPermutation ==
    Ordered =>
        /\ Permutation(probe.res, new_legal(probe.arg.board))
        /\ Grouped(probe.res, probe.arg.pv)

\* without a hint the result is every legal move once, captures first
MoveOrderingWithoutHint ==
    (Ordered /\ probe.arg.pv = None)
        => /\ Permutation(probe.res, new_legal(probe.arg.board))
           /\ Grouped(probe.res, probe.arg.pv)

\* with a hint the result holds the hinted move alone, if it is legal
MoveOrderingWithHint ==
    (Ordered /\ probe.arg.pv # None)
        => probe.res = FilterMv(new_legal(probe.arg.board), probe.arg.pv)

\* the worker takes the step that enters quiescence while a command waits
\* in the control queue
QuiescenceEntered ==
    /\ Searching /\ Top.fn = "quiescence" /\ Top.pc = "entry"
    /\ stack' # stack
    /\ cq # <<>>

\* check_terminate ran in this step: it received the waiting command
Received == cq' = Tail(cq)

\* C23: quiescence calls check_terminate exactly when the node counter is a
\* multiple of 8192: a command that waits in the control queue is received
\* at the entry of quiescence iff nodes % 8192 = 0.
C23_QuiescencePollCadence ==
    [][QuiescenceEntered => (Received <=> search_state.nodes % POLL = 0)]_vars

\* quiescence polls while bit 13 of the node counter is clear
QuiescencePollsOnClearBit ==
    [][QuiescenceEntered => (Received <=> (search_state.nodes \div POLL) % 2 = 0)]_vars

\* negamax receives a waiting command exactly at the multiples of 8192
NegamaxPollCadence ==
    [][(/\ Searching /\ Top.fn = "negamax" /\ Top.pc = "entry"
        /\ stack' # stack /\ cq # <<>>)
           => (Received <=> search_state.nodes % POLL = 0)]_vars

Terminated == Searching /\ search_state.terminate # "None"

\* terminate, once set, stays set while the search runs
TerminateKept == (Terminated /\ Searching') => search_state'.terminate # "None"

\* the worker enters negamax or quiescence after terminate was set: the call
\* returns 0 to its caller at once; no node is counted, no move made and
\* nothing evaluated
TerminatedEntry ==
    (Terminated /\ Top.pc = "entry" /\ stack' # stack)
        => /\ search_state'.nodes = search_state.nodes
           /\ search_state'.ply = search_state.ply
           /\ board' = board /\ history' = history
           /\ SubSeq(stack', 1, Len(stack) - 2) = SubSeq(stack, 1, Len(stack) - 2)
           /\ stack'[Len(stack) - 1].eval_score = 0
           /\ stack'[Len(stack) - 1].pc # stack[Len(stack) - 1].pc

\* a search starts with terminate unset
StartsUnset == (~Searching /\ Searching') => search_state'.terminate = "None"

\* C24: once terminate is set during a search it is never cleared for the
\* rest of that search, every later entry to negamax or quiescence returns 0
\* immediately without counting a node, making a move or evaluating, and
\* each new search starts with terminate unset.
C24_TerminateSticky ==
    [][TerminateKept /\ TerminatedEntry /\ StartsUnset]_vars

\* a call below the root is entered after terminate was set
C24_Witness ==
    /\ Terminated /\ Len(stack) >= 3 /\ Top.pc = "entry"
    /\ search_state.nodes > 1

\* the top call is a negamax below the root that has not yet ordered its
\* moves; the pv container it was given is its caller's node_pv
NonRootNegamax ==
    /\ Searching /\ Len(stack) >= 3
    /\ Top.fn = "negamax" /\ Top.pc \in {"entry", "order"}

\* C25: at every non-root node, the full-window re-search after a scout
\* search of the same child included, the pv container passed into negamax
\* is empty on entry, so move_ordering receives no hint there.
C25_HintAtRootOnly ==
    NonRootNegamax
        => /\ stack[Len(stack) - 1].node_pv = <<>>
           /\ pv_hint(stack[Len(stack) - 1].node_pv) = None

\* a child is searched again with the full window after its scout search
C25_Witness ==
    /\ NonRootNegamax
    /\ stack[Len(stack) - 1].pc = "full" /\ stack[Len(stack) - 1].do_pvs

\* the root of a later iteration is entered with the previous line as hint
RootHinted ==
    /\ Searching /\ Len(stack) = 2 /\ Top.fn = "negamax" /\ Top.pc = "order"
    /\ pv_hint(stack[1].node_pv) # None

\* the largest element of a non-empty set of scores
Largest(S) == CHOOSE x \in S : \A y \in S : y <= x

\* the moves of a sequence, as a set
MovesOf(s) == {s[i] : i \in 1..Len(s)}

\* a score within the full window
InWindow(v) == IF v > INFINITY THEN INFINITY ELSE IF v < -INFINITY THEN -INFINITY ELSE v

\* The reference search: negamax to a fixed depth that examines every legal
\* move in any order, without window, scout search or hint; draw children
\* score 0, the leaves are settled by a capture search with stand-pat score.
RECURSIVE PlainQuiescence(_, _, _), PlainNegamax(_, _, _, _), PlainChild(_, _, _, _, _)
PlainQuiescence(b, h, ply) ==
    IF ply > MAX_PLY THEN evaluate(b)
    ELSE InWindow(Largest({evaluate(b)} \cup
             {-PlainQuiescence(make_move_new(b, m),
                               Append(h, history_entry(make_move_new(b, m), m)), ply + 1) :
                  m \in MovesOf(captures(b))}))

\* the score of move m of position b for the side that plays it
PlainChild(b, h, depth, ply, m) ==
    LET nb == make_move_new(b, m)
        nh == Append(h, history_entry(nb, m))
    IN  IF is_draw(nb, nh) THEN 0 ELSE -PlainNegamax(nb, nh, depth - 1, ply + 1)

PlainNegamax(b, h, depth, ply) ==
    IF ply > MAX_PLY THEN evaluate(b)
    ELSE LET d == IF is_check_on(b) THEN depth + 1 ELSE depth IN
         IF d = 0 THEN PlainQuiescence(b, h, ply)
         ELSE IF new_legal(b) = <<>>
         THEN (IF is_check_on(b) THEN -INFINITY + ply ELSE 0)
         ELSE InWindow(Largest({PlainChild(b, h, d, ply, m) : m \in MovesOf(new_legal(b))}))

\* an iteration has returned to the driver and was not cancelled
IterationCompleted ==
    /\ Searching /\ Top.fn = "driver" /\ Top.pc = "iter_end"
    /\ search_state.terminate = "None"

\* the depth the root searches its moves to
RootDepth == IF is_check_on(Top.in_board) THEN Top.depth + 1 ELSE Top.depth

\* C26: for every uncancelled iteration the root negamax call returns the
\* score of the reference search to the iteration's depth, and the first
\* move of its pv attains that score; also at depth 2 and more, where the
\* previous line is still in the root pv.
C26_RootEqualsPlainNegamax ==
    IterationCompleted
        => /\ Top.eval_score = PlainNegamax(Top.in_board, Top.in_history, Top.depth, 0)
           /\ Top.node_pv # <<>>
                  => PlainChild(Top.in_board, Top.in_history, RootDepth, 0, Top.node_pv[1])
                         = Top.eval_score

\* the first iteration, entered without a hint, agrees with the reference
FirstIterationEqualsPlainNegamax ==
    (IterationCompleted /\ Top.depth = 1)
        => /\ Top.eval_score = PlainNegamax(Top.in_board, Top.in_history, Top.depth, 0)
           /\ Top.node_pv # <<>>
                  => PlainChild(Top.in_board, Top.in_history, RootDepth, 0, Top.node_pv[1])
                         = Top.eval_score

\* C27: in every state of a search ply is at least 0 and at most
\* MAX_PLY + 1 = 65, below the 256 of its 8-bit counter, the call stack is
\* never deeper than the driver and one call for each ply from 0 to
\* MAX_PLY + 1, and, no coordinator writing, the shared history is as long
\* as at the search's start plus ply.
C27_PlyBounded ==
    Searching
        => /\ search_state.ply >= 0
           /\ search_state.ply <= MAX_PLY + 1
           /\ MAX_PLY + 1 < 256
           /\ Len(stack) <= MAX_PLY + 3
           /\ Len(history) = Len(stack[1].in_history) + search_state.ply

\* along the line of checks the search stands at ply MAX_PLY + 1 in a call
\* whose position still has a move
C27_Witness ==
    /\ Searching /\ Top.pc = "entry"
    /\ search_state.ply = MAX_PLY + 1
    /\ is_check_on(board) /\ new_legal(board) # <<>>

====
